---- MODULE Spec2Model ----
(***************************************************************************)
(* Model of mm_json.h: the table driven tokenizer (json_begin, json_read,  *)
(* json_parse) and the flat loader (json_num, json_load).                  *)
(*                                                                         *)
(* A document is a sequence of byte values.  A C pointer into the document *)
(* is the 0-based offset of the byte it points at, so the byte *p of the   *)
(* document b is b[p + 1]; the null pointer is NULL.                       *)
(***************************************************************************)
EXTENDS Integers, Sequences, FiniteSets, TLC

\* ------------------------------------------------------------------------
\* Bytes used by the tables and the documents
\* ------------------------------------------------------------------------
NUL == 0
TAB == 9
LF == 10
CR == 13
SP == 32
QT == 34
PLUS == 43
CM == 44
MINUS == 45
DOT == 46
CL == 58
EQ == 61
UE == 69
LK == 91
BSL == 92
RK == 93
Lb == 98
Le == 101
Lf == 102
Ln == 110
Lt == 116
LB == 123
RB == 125

\* other bytes the documents below are written with
\* bytes above 127: lead bytes of a 2, 3 and 4 byte sequence, a
\* continuation byte and a byte no table accepts
LEAD2 == 195
LEAD3 == 226
LEAD4 == 240
CONT == 169
STRAY == 248

Ch == [a |-> 97, h |-> 104, i |-> 105, d0 |-> 48, d1 |-> 49, d2 |-> 50, d3 |-> 51, d4 |-> 52]

\* the null pointer; offsets into the document start at 0
NULL == -1

\* json_iter.depth is an unsigned of 32 bits.  It is held as the int of the
\* same bit pattern, so 0 - 1 (4294967295 in C) is -1 here and + 1, - 1 and ==
\* are those of int; as an unsigned, a negative pattern is above every small k
UGt(d, k) == d < 0 \/ d > k
ULe(d, k) == ~UGt(d, k)

\* enum json_token_type
JSON_NONE == 0
JSON_OBJECT == 1
JSON_ARRAY == 2
JSON_NUMBER == 3
JSON_STRING == 4
JSON_TRUE == 5
JSON_FALSE == 6
JSON_NULL == 7

\* enum json_status
JSON_OK == 0
JSON_INVAL == 1
JSON_OUT_OF_TOKEN == 2
JSON_PARSING_ERROR == 3

\* enum json_parser_states
JSON_STATE_FAILED == 0
JSON_STATE_LOOP == 1
JSON_STATE_SEP == 2
JSON_STATE_UP == 3
JSON_STATE_DOWN == 4
JSON_STATE_QUP == 5
JSON_STATE_QDOWN == 6
JSON_STATE_ESC == 7
JSON_STATE_UNESC == 8
JSON_STATE_BARE == 9
JSON_STATE_UNBARE == 10
JSON_STATE_UTF8_2 == 11
JSON_STATE_UTF8_3 == 12
JSON_STATE_UTF8_4 == 13
JSON_STATE_UTF8_NEXT == 14

\* enum json_nuber_states
JSON_STATE_NUM_FAILED == 0
JSON_STATE_NUM_LOOP == 1
JSON_STATE_NUM_FLT == 2
JSON_STATE_NUM_EXP == 3
JSON_STATE_NUM_BREAK == 4

\* ------------------------------------------------------------------------
\* json_init: the jump tables, as the finished initialisation leaves them.
\* Later assignments of json_init override earlier ones, so they are tested
\* first; an entry json_init never writes keeps the zero of static storage.
\* ------------------------------------------------------------------------
json_go_struct(c) ==
    IF c \in {LK, LB} THEN JSON_STATE_UP
    ELSE IF c \in {RK, RB} THEN JSON_STATE_DOWN
    ELSE IF c \in {MINUS, Lt, Lf, Ln} THEN JSON_STATE_BARE
    ELSE IF c = CM THEN JSON_STATE_LOOP
    ELSE IF c \in {CL, EQ} THEN JSON_STATE_SEP
    ELSE IF c = QT THEN JSON_STATE_QUP
    ELSE IF c \in {TAB, CR, LF, SP} THEN JSON_STATE_LOOP
    ELSE IF c \in 48..57 THEN JSON_STATE_BARE
    ELSE JSON_STATE_FAILED

json_go_bare(c) ==
    IF c \in {TAB, CR, LF, CM, RK, RB} THEN JSON_STATE_UNBARE
    ELSE IF c \in 32..126 THEN JSON_STATE_LOOP
    ELSE JSON_STATE_FAILED

json_go_string(c) ==
    IF c = QT THEN JSON_STATE_QDOWN
    ELSE IF c = BSL THEN JSON_STATE_ESC
    ELSE IF c \in 240..247 THEN JSON_STATE_UTF8_4
    ELSE IF c \in 224..239 THEN JSON_STATE_UTF8_3
    ELSE IF c \in 192..223 THEN JSON_STATE_UTF8_2
    ELSE IF c \in 32..126 THEN JSON_STATE_LOOP
    ELSE JSON_STATE_FAILED

\* json_go_utf8 with UTF8_NEXT in every entry
json_go_utf8_any(c) == JSON_STATE_UTF8_NEXT

json_go_utf8(c) ==
    IF c \in 128..191 THEN JSON_STATE_UTF8_NEXT ELSE JSON_STATE_FAILED

json_go_esc(c) ==
    IF c \in {QT, BSL, 47, Lb, Lf, Ln, 114, Lt, 117} THEN JSON_STATE_UNESC
    ELSE JSON_STATE_FAILED

\* json_go_num without the entries for white space
json_go_num_nobreak(c) ==
    IF c \in {Le, UE} THEN JSON_STATE_NUM_EXP
    ELSE IF c = DOT THEN JSON_STATE_NUM_FLT
    ELSE IF c \in {MINUS, PLUS} THEN JSON_STATE_NUM_LOOP
    ELSE IF c \in 48..57 THEN JSON_STATE_LOOP
    ELSE JSON_STATE_NUM_FAILED

\* the digits are written with JSON_STATE_LOOP, which has the value of
\* JSON_STATE_NUM_LOOP
json_go_num(c) ==
    IF c \in {SP, LF, TAB, CR} THEN JSON_STATE_NUM_BREAK
    ELSE IF c \in {Le, UE} THEN JSON_STATE_NUM_EXP
    ELSE IF c = DOT THEN JSON_STATE_NUM_FLT
    ELSE IF c \in {MINUS, PLUS} THEN JSON_STATE_NUM_LOOP
    ELSE IF c \in 48..57 THEN JSON_STATE_LOOP
    ELSE JSON_STATE_NUM_FAILED

\* tbl[c] for the table iter.go points at
Tbl(go, c) ==
    CASE go = "json_go_struct" -> json_go_struct(c)
      [] go = "json_go_bare"   -> json_go_bare(c)
      [] go = "json_go_string" -> json_go_string(c)
      [] go = "json_go_utf8"   -> json_go_utf8(c)
      [] go = "json_go_esc"    -> json_go_esc(c)

\* the six tables
Tables == {"json_go_struct", "json_go_bare", "json_go_string", "json_go_utf8", "json_go_esc",
           "json_go_num"}

\* the entry tbl[c] of a table once json_init has run to its end
Entry(tbl, c) == IF tbl = "json_go_num" THEN json_go_num(c) ELSE Tbl(tbl, c)

\* for (i = lo; i <= hi; ++i) tbl[i] = st;  and the single store tbl[c] = st;
ForStore(tbl, lo, hi, st) == [tbl |-> tbl, lo |-> lo, hi |-> hi, st |-> st]
Store(tbl, c, st) == ForStore(tbl, c, c, st)

\* the statements of json_init after json_is_initialized = 1, in program order
InitStmts == <<
    ForStore("json_go_struct", 48, 57, JSON_STATE_BARE),
    Store("json_go_struct", TAB, JSON_STATE_LOOP),
    Store("json_go_struct", CR, JSON_STATE_LOOP),
    Store("json_go_struct", LF, JSON_STATE_LOOP),
    Store("json_go_struct", SP, JSON_STATE_LOOP),
    Store("json_go_struct", QT, JSON_STATE_QUP),
    Store("json_go_struct", CL, JSON_STATE_SEP),
    Store("json_go_struct", EQ, JSON_STATE_SEP),
    Store("json_go_struct", CM, JSON_STATE_LOOP),
    Store("json_go_struct", LK, JSON_STATE_UP),
    Store("json_go_struct", RK, JSON_STATE_DOWN),
    Store("json_go_struct", LB, JSON_STATE_UP),
    Store("json_go_struct", RB, JSON_STATE_DOWN),
    Store("json_go_struct", MINUS, JSON_STATE_BARE),
    Store("json_go_struct", Lt, JSON_STATE_BARE),
    Store("json_go_struct", Lf, JSON_STATE_BARE),
    Store("json_go_struct", Ln, JSON_STATE_BARE),
    ForStore("json_go_bare", 32, 126, JSON_STATE_LOOP),
    Store("json_go_bare", TAB, JSON_STATE_UNBARE),
    Store("json_go_bare", CR, JSON_STATE_UNBARE),
    Store("json_go_bare", LF, JSON_STATE_UNBARE),
    Store("json_go_bare", CM, JSON_STATE_UNBARE),
    Store("json_go_bare", RK, JSON_STATE_UNBARE),
    Store("json_go_bare", RB, JSON_STATE_UNBARE),
    ForStore("json_go_string", 32, 126, JSON_STATE_LOOP),
    ForStore("json_go_string", 192, 223, JSON_STATE_UTF8_2),
    ForStore("json_go_string", 224, 239, JSON_STATE_UTF8_3),
    ForStore("json_go_string", 240, 247, JSON_STATE_UTF8_4),
    Store("json_go_string", BSL, JSON_STATE_ESC),
    Store("json_go_string", QT, JSON_STATE_QDOWN),
    ForStore("json_go_utf8", 128, 191, JSON_STATE_UTF8_NEXT),
    Store("json_go_esc", QT, JSON_STATE_UNESC),
    Store("json_go_esc", BSL, JSON_STATE_UNESC),
    Store("json_go_esc", 47, JSON_STATE_UNESC),
    Store("json_go_esc", Lb, JSON_STATE_UNESC),
    Store("json_go_esc", Lf, JSON_STATE_UNESC),
    Store("json_go_esc", Ln, JSON_STATE_UNESC),
    Store("json_go_esc", 114, JSON_STATE_UNESC),
    Store("json_go_esc", Lt, JSON_STATE_UNESC),
    Store("json_go_esc", 117, JSON_STATE_UNESC),
    ForStore("json_go_num", 48, 57, JSON_STATE_LOOP),
    Store("json_go_num", MINUS, JSON_STATE_NUM_LOOP),
    Store("json_go_num", PLUS, JSON_STATE_NUM_LOOP),
    Store("json_go_num", DOT, JSON_STATE_NUM_FLT),
    Store("json_go_num", Le, JSON_STATE_NUM_EXP),
    Store("json_go_num", UE, JSON_STATE_NUM_EXP),
    Store("json_go_num", SP, JSON_STATE_NUM_BREAK),
    Store("json_go_num", LF, JSON_STATE_NUM_BREAK),
    Store("json_go_num", TAB, JSON_STATE_NUM_BREAK),
    Store("json_go_num", CR, JSON_STATE_NUM_BREAK) >>

\* bound: the bytes whose table entries are followed; a store to any other
\* byte goes to another location and is left out
InitBytes == {QT, CM, 49, Lf, 128}

\* the stores one statement makes to the entries of InitBytes, in the order
\* of its loop
RECURSIVE StmtStores(_, _)
StmtStores(stmt, i) ==
    IF i > stmt.hi THEN <<>>
    ELSE IF i \in InitBytes
    THEN <<[tbl |-> stmt.tbl, c |-> i, st |-> stmt.st]>> \o StmtStores(stmt, i + 1)
    ELSE StmtStores(stmt, i + 1)

\* the stores of json_init to the entries of InitBytes, in program order
RECURSIVE StoresFrom(_)
StoresFrom(k) ==
    IF k > Len(InitStmts) THEN <<>>
    ELSE StmtStores(InitStmts[k], InitStmts[k].lo) \o StoresFrom(k + 1)

InitStores == StoresFrom(1)

\* static storage before json_init: every entry is 0
ZeroTables == [tbl \in Tables |-> [c \in InitBytes |-> 0]]

\* the tables after a whole json_init
FullTables == [tbl \in Tables |-> [c \in InitBytes |-> Entry(tbl, c)]]

\* ------------------------------------------------------------------------
\* Tokens and iterators
\* ------------------------------------------------------------------------
JSON_ITER_NULL == [len |-> 0, err |-> 0, depth |-> 0, go |-> "NULL", src |-> NULL]

JSON_TOKEN_NULL == [type |-> JSON_NONE, str |-> NULL, len |-> 0, children |-> 0, sub |-> 0]

\* tok.type == JSON_OBJECT || tok.type == JSON_ARRAY
IsContainer(t) == t.type = JSON_OBJECT \/ t.type = JSON_ARRAY

\* json_type: the kind of a token, from its first byte
json_type(tok, b) ==
    IF tok.str = NULL \/ tok.len = 0 THEN JSON_NONE
    ELSE LET c == b[tok.str + 1] IN
         IF c = LB THEN JSON_OBJECT
         ELSE IF c = LK THEN JSON_ARRAY
         ELSE IF c = QT THEN JSON_STRING
         ELSE IF c = Lt THEN JSON_TRUE
         ELSE IF c = Lf THEN JSON_FALSE
         ELSE IF c = Ln THEN JSON_NULL
         ELSE JSON_NUMBER

\* json_deq: strips the quotes of a string token
json_deq(tok, b) ==
    IF b[tok.str + 1] = QT /\ tok.len >= 2
    THEN [tok EXCEPT !.str = tok.str + 1, !.len = tok.len - 2]
    ELSE tok

\* obj->type = json_type(obj); if (obj->type == JSON_STRING) json_deq(obj);
Finish(obj, b) ==
    LET t == [obj EXCEPT !.type = json_type(obj, b)]
    IN IF t.type = JSON_STRING THEN json_deq(t, b) ELSE t

\* (int)(cur - obj->str): with obj->str null the subtraction is undefined
\* and the build leaves an arbitrary int, ub
PtrDiff(cur, str, ub) == IF str = NULL THEN ub ELSE cur - str

\* json_begin
json_begin(str, len) == [JSON_ITER_NULL EXCEPT !.src = str, !.len = len]

\* ------------------------------------------------------------------------
\* json_read.  The loop state s holds the locals of the call: the iterator
\* being built (iter), the token (obj), cur, len, utf8_remain and the last
\* byte read (c).  The result names the return statement taken (ret).
\* ------------------------------------------------------------------------
Ret(iter, obj, ret) == [iter |-> iter, obj |-> obj, ret |-> ret]

\* Count without obj->sub++
Count_nosub(obj, depth) ==
    [obj EXCEPT !.children = IF depth = 2 THEN obj.children + 1 ELSE obj.children]

\* a token at depth > 1 is counted in the container in flight
Count(obj, depth) ==
    [obj EXCEPT !.children = IF depth = 2 THEN obj.children + 1 ELSE obj.children,
                !.sub = obj.sub + 1]

\* l_end: the loop ran out of bytes or met a NUL
l_end(s, b) ==
    IF s.iter.depth = 0
    THEN LET it == [s.iter EXCEPT !.src = NULL, !.len = 0]
         IN IF s.obj.str # NULL
            THEN LET n == IF s.c = RB THEN (s.cur - 1) - s.obj.str ELSE s.cur - s.obj.str
                 IN Ret(it, Finish([s.obj EXCEPT !.len = n], b), "eof")
            ELSE Ret(it, s.obj, "eof")
    ELSE Ret(s.iter, s.obj, "open")

\* l_yield
l_yield(s, b) ==
    Ret([s.iter EXCEPT !.src = s.cur + 1, !.len = s.len - 1], Finish(s.obj, b), "yield")

\* the switch on tbl[c]: k says how the iteration leaves the switch
\* ("loop": falls to l_loop, "yield": goto l_yield, "return": returns r)
Switch(s, b, ub) ==
    LET st == Tbl(s.iter.go, s.c)
        d == s.iter.depth
        Loop(t) == [k |-> "loop", s |-> t, r |-> Ret(t.iter, t.obj, "none")]
        Yield(t) == [k |-> "yield", s |-> t, r |-> Ret(t.iter, t.obj, "none")]
        Return(r) == [k |-> "return", s |-> s, r |-> r]
    IN CASE st = JSON_STATE_FAILED ->
              Return(Ret([s.iter EXCEPT !.err = 1], s.obj, "failed"))
         [] st = JSON_STATE_LOOP -> Loop(s)
         [] st = JSON_STATE_SEP ->
              Loop(IF d = 2 THEN [s EXCEPT !.obj.children = s.obj.children - 1] ELSE s)
         [] st = JSON_STATE_UP ->
              LET o1 == IF UGt(d, 1) THEN Count(s.obj, d) ELSE s.obj
                  o2 == IF d = 1 THEN [o1 EXCEPT !.str = s.cur] ELSE o1
              IN Loop([s EXCEPT !.obj = o2, !.iter.depth = d + 1])
         [] st = JSON_STATE_DOWN ->
              LET d1 == d - 1
                  t == [s EXCEPT !.iter.depth = d1]
              IN IF d1 = 1
                 THEN LET u == [t EXCEPT !.obj.len = PtrDiff(s.cur, s.obj.str, ub) + 1]
                      IN IF s.obj.str = NULL THEN Loop(u) ELSE Yield(u)
                 ELSE Loop(t)
         [] st = JSON_STATE_QUP ->
              LET t == [s EXCEPT !.iter.go = "json_go_string"]
              IN IF ULe(d, 1) THEN Loop([t EXCEPT !.obj.str = s.cur])
                 ELSE Loop([t EXCEPT !.obj = Count(s.obj, d)])
         [] st = JSON_STATE_QDOWN ->
              LET t == [s EXCEPT !.iter.go = "json_go_struct"]
              IN IF ULe(d, 1)
                 THEN LET u == [t EXCEPT !.obj.len = PtrDiff(s.cur, s.obj.str, ub) + 1]
                      IN IF s.obj.str = NULL THEN Loop(u) ELSE Yield(u)
                 ELSE Loop(t)
         [] st = JSON_STATE_ESC -> Loop([s EXCEPT !.iter.go = "json_go_esc"])
         [] st = JSON_STATE_UNESC -> Loop([s EXCEPT !.iter.go = "json_go_string"])
         [] st = JSON_STATE_BARE ->
              LET t == [s EXCEPT !.iter.go = "json_go_bare"]
              IN IF ULe(d, 1) THEN Loop([t EXCEPT !.obj.str = s.cur])
                 ELSE Loop([t EXCEPT !.obj = Count(s.obj, d)])
         [] st = JSON_STATE_UNBARE ->
              IF ULe(d, 1)
              THEN LET o == [s.obj EXCEPT !.len = PtrDiff(s.cur, s.obj.str, ub)]
                   IN Return(Ret([s.iter EXCEPT !.go = "json_go_struct",
                                                !.src = s.cur, !.len = s.len],
                                 Finish(o, b), "unbare"))
              ELSE Loop([s EXCEPT !.iter.go = "json_go_struct",
                                  !.cur = s.cur - 1, !.len = s.len + 1])
         [] st = JSON_STATE_UTF8_2 ->
              Loop([s EXCEPT !.iter.go = "json_go_utf8", !.utf8_remain = 1])
         [] st = JSON_STATE_UTF8_3 ->
              Loop([s EXCEPT !.iter.go = "json_go_utf8", !.utf8_remain = 2])
         [] st = JSON_STATE_UTF8_4 ->
              Loop([s EXCEPT !.iter.go = "json_go_utf8", !.utf8_remain = 3])
         [] st = JSON_STATE_UTF8_NEXT ->
              Loop([s EXCEPT !.utf8_remain = s.utf8_remain - 1,
                             !.iter.go = IF s.utf8_remain - 1 = 0
                                         THEN "json_go_string" ELSE s.iter.go])

\* for (cur = iter.src; len; cur++, len--) { ... }
RECURSIVE ReadLoop(_, _, _)
ReadLoop(s, b, ub) ==
    IF s.len = 0 THEN l_end(s, b)
    ELSE LET t == [s EXCEPT !.c = b[s.cur + 1]]
         IN IF t.c = NUL THEN l_end(t, b)
            ELSE IF t.iter.depth = 1 /\ t.c \in {RB, RK} /\ t.len = 1 /\ t.obj.str = NULL
            THEN Ret([t.iter EXCEPT !.src = NULL, !.len = 0, !.depth = 0], t.obj, "close")
            ELSE LET w == Switch(t, b, ub)
                 IN IF w.k = "return" THEN w.r
                    ELSE IF w.k = "yield" THEN l_yield(w.s, b)
                    ELSE ReadLoop([w.s EXCEPT !.cur = w.s.cur + 1, !.len = w.s.len - 1], b, ub)

\* json_read without the test of prev->err
json_read_noerr(prev, b, ub) ==
    IF prev.src = NULL \/ prev.len = 0
    THEN Ret([JSON_ITER_NULL EXCEPT !.err = 1], JSON_TOKEN_NULL, "invalid")
    ELSE ReadLoop([iter |-> [prev EXCEPT !.err = 0,
                                         !.go = IF prev.go = "NULL" THEN "json_go_struct"
                                                ELSE prev.go],
                   obj |-> JSON_TOKEN_NULL,
                   cur |-> prev.src, len |-> prev.len,
                   utf8_remain |-> 0, c |-> NUL], b, ub)

json_read(prev, b, ub) ==
    IF prev.src = NULL \/ prev.len = 0 \/ prev.err # 0
    THEN Ret([JSON_ITER_NULL EXCEPT !.err = 1], JSON_TOKEN_NULL, "invalid")
    ELSE ReadLoop([iter |-> [prev EXCEPT !.err = 0,
                                         !.go = IF prev.go = "NULL" THEN "json_go_struct"
                                                ELSE prev.go],
                   obj |-> JSON_TOKEN_NULL,
                   cur |-> prev.src, len |-> prev.len,
                   utf8_remain |-> 0, c |-> NUL], b, ub)

\* json_parse: name is read first, value only if that read did not fail
json_parse(p, it, b, ub) ==
    LET n == json_read(it, b, ub)
    IN IF n.iter.err # 0
       THEN [iter |-> n.iter, pair |-> [p EXCEPT !.name = n.obj], ret |-> n.ret]
       ELSE LET v == json_read(n.iter, b, ub)
            IN [iter |-> v.iter, pair |-> [name |-> n.obj, value |-> v.obj], ret |-> v.ret]

\* ------------------------------------------------------------------------
\* Utility: json_convert and json_cpy.  A token read by these functions
\* points into the memory mem it was cut from (the document, or the path of
\* a query); mem[p + 1] is the byte at offset p.
\*
\* A json_number is held exactly, as the pair m, s that stands for
\* m / 10^s; the rounding of double is left out.
\* ------------------------------------------------------------------------
Number(m, s) == [m |-> m, s |-> s]

RECURSIVE Pow10(_)
Pow10(n) == IF n <= 0 THEN 1 ELSE 10 * Pow10(n - 1)

\* the largest int whose square is an int
INT_SQRT == 46340

\* json_ipow(10, exp): base *= base runs once more after the last bit of
\* exp, and overflows int (undefined) when base has reached 10^8, which is
\* when exp >= 8
RECURSIVE json_ipow(_, _, _)
json_ipow(base, exp, res) ==
    IF exp = 0 THEN [ub |-> FALSE, res |-> res]
    ELSE IF base > INT_SQRT THEN [ub |-> TRUE, res |-> 0]
    ELSE json_ipow(base * base, exp \div 2, IF exp % 2 = 1 THEN res * base ELSE res)

IsDigit(c) == c \in 48..57

\* the for loop of json_stoi
RECURSIVE StoiLoop(_, _, _, _)
StoiLoop(tok, mem, i, n) ==
    IF i >= tok.len THEN n
    ELSE LET c == mem[tok.str + i + 1]
         IN StoiLoop(tok, mem, i + 1, IF IsDigit(c) THEN (n * 10) + c - 48 ELSE n)

json_stoi(tok, mem) ==
    IF tok.str = NULL \/ tok.len = 0 THEN 0
    ELSE LET c0 == mem[tok.str + 1]
             off == IF c0 = MINUS \/ c0 = PLUS THEN 1 ELSE 0
             n == StoiLoop(tok, mem, off, 0)
         IN IF c0 = MINUS THEN -n ELSE n

\* the for loop of json_stof: the k-th digit is added with weight 10^-k,
\* so after k digits n is m / 10^k
RECURSIVE StofLoop(_, _, _, _)
StofLoop(tok, mem, i, n) ==
    IF i >= tok.len THEN n
    ELSE LET c == mem[tok.str + i + 1]
         IN StofLoop(tok, mem, i + 1,
                     IF IsDigit(c) THEN Number(n.m * 10 + (c - 48), n.s + 1) ELSE n)

json_stof(tok, mem) ==
    IF tok.str = NULL \/ tok.len = 0 THEN Number(0, 0)
    ELSE StofLoop(tok, mem, 0, Number(0, 0))

\* indexes of nums[] in json_convert
INT == 0
FLT == 1
EXP == 2

\* the for loop of json_convert over the locals nums, write, cur and len;
\* failed is set where the loop returns JSON_NONE
RECURSIVE ConvertLoop(_, _)
ConvertLoop(st, mem) ==
    IF st.len = 0 THEN st
    ELSE LET state == json_go_num(mem[st.cur + 1])
             w == st.write
             Step(t) == ConvertLoop([t EXCEPT !.cur = t.cur + 1, !.len = t.len - 1], mem)
         IN CASE state = JSON_STATE_NUM_FAILED -> [st EXCEPT !.failed = TRUE]
              [] state = JSON_STATE_NUM_FLT ->
                   IF st.nums[FLT].str # NULL THEN [st EXCEPT !.failed = TRUE]
                   ELSE IF st.nums[EXP].str # NULL THEN [st EXCEPT !.failed = TRUE]
                   ELSE Step([st EXCEPT !.nums[w].len = st.cur - st.nums[w].str,
                                        !.write = FLT,
                                        !.nums[FLT].str = st.cur + 1])
              [] state = JSON_STATE_NUM_EXP ->
                   IF st.nums[EXP].str # NULL THEN [st EXCEPT !.failed = TRUE]
                   ELSE Step([st EXCEPT !.nums[w].len = st.cur - st.nums[w].str,
                                        !.write = EXP,
                                        !.nums[EXP].str = st.cur + 1])
              [] state = JSON_STATE_NUM_BREAK -> Step([st EXCEPT !.len = 1])
              [] OTHER -> Step(st)

\* *num = tmp * p of json_convert, from its locals i, f, e and
\* p = json_ipow(10, |e|)
ConvertValue(ub, i, f, e, p) ==
    LET m == (i * Pow10(f.s)) + (IF i < 0 THEN -f.m ELSE f.m)
    IN [type |-> JSON_NUMBER,
        num |-> IF p.ub THEN Number(ub, 0)
                ELSE IF e < 0 THEN Number(m, f.s - e)
                ELSE Number(m * p.res, f.s)]

\* p = json_ipow(10, (e < 0) ? -e : e)
ConvertPow(ub, i, f, e) ==
    ConvertValue(ub, i, f, e, json_ipow(10, IF e < 0 THEN -e ELSE e, 1))

\* i, f and e of json_convert, from the three parts of the token
ConvertParts(mem, ub, nums) ==
    ConvertPow(ub, json_stoi(nums[INT], mem), json_stof(nums[FLT], mem),
               json_stoi(nums[EXP], mem))

\* json_convert after its for loop has ended in st
ConvertEnd(num, mem, ub, st) ==
    IF st.failed THEN [type |-> JSON_NONE, num |-> num]
    ELSE ConvertParts(mem, ub,
                      [st.nums EXCEPT ![st.write].len = st.cur - st.nums[st.write].str])

\* json_convert(&num, tok): the return value and what *num holds after it
json_convert(num, tok, mem, ub) ==
    IF tok.str = NULL \/ tok.len = 0 THEN [type |-> JSON_NONE, num |-> num]
    ELSE ConvertEnd(num, mem, ub,
                    ConvertLoop([nums |-> [k \in {INT, FLT, EXP} |->
                                             IF k = INT
                                             THEN [JSON_TOKEN_NULL EXCEPT !.str = tok.str]
                                             ELSE JSON_TOKEN_NULL],
                                 write |-> INT, cur |-> tok.str, len |-> tok.len,
                                 failed |-> FALSE], mem))

\* (int)n
IntOf(n) ==
    LET q == Pow10(n.s)
    IN IF n.m >= 0 THEN n.m \div q ELSE -((-n.m) \div q)

\* j < n for an int j
IntLess(j, n) == j * Pow10(n.s) < n.m

\* json_cpy(dst, max, tok): the return value and the bytes of dst after it.
\* dst is the function from the indexes written so far to the bytes there.
json_cpy(dst, max, tok, mem) ==
    IF max = 0 THEN [ret |-> 0, dst |-> dst]
    ELSE LET ret == IF max < tok.len + 1 THEN max ELSE tok.len
             siz == IF max < tok.len + 1 THEN max - 1 ELSE tok.len
         IN [ret |-> ret,
             dst |-> [k \in DOMAIN dst \cup (0..(siz - 1)) \cup {siz} |->
                        IF k = siz THEN NUL
                        ELSE IF k \in 0..(siz - 1) THEN mem[tok.str + k + 1]
                        ELSE dst[k]]]


\* ------------------------------------------------------------------------
\* Query.  The path is a C string: mem holds its bytes, the terminating NUL
\* and what lies after it, and a pointer into it is an offset, as for the
\* document.  The token array is ts (indexed from 0); a slot that was never
\* written, or that lies after the array, holds an arbitrary token tj.
\* ------------------------------------------------------------------------
\* the while loop of json_strchr; at is where str stands when it ends
RECURSIVE StrChrLoop(_, _, _, _, _)
StrChrLoop(mem, str, c, len, dec) ==
    IF mem[str + 1] # NUL /\ len >= 0
    THEN IF mem[str + 1] = c THEN [found |-> TRUE, at |-> str]
         ELSE StrChrLoop(mem, str + 1, c, len - dec, dec)
    ELSE [found |-> FALSE, at |-> str]

json_strchr(mem, str, c, len) ==
    LET neg == len < 0
        r == StrChrLoop(mem, str, c, IF neg THEN 0 ELSE len, IF neg THEN 0 ELSE 1)
    IN IF str = NULL THEN NULL
       ELSE IF r.found THEN r.at
       ELSE IF neg THEN r.at
       ELSE NULL

\* json_path_parse_name after its three calls of json_strchr have set the
\* locals del, begin and end
PathName(tok, path, mem, del, begin, end) ==
    IF begin = path
    THEN [tok |-> [tok EXCEPT !.str = path, !.len = (end - begin) + 1],
          path |-> IF mem[end + 2] = NUL THEN NULL
                   ELSE IF mem[end + 2] = DOT THEN end + 2
                   ELSE end + 1]
    ELSE IF begin < del
    THEN [tok |-> [tok EXCEPT !.str = path, !.len = begin - path], path |-> begin]
    ELSE IF mem[del + 1] = NUL
    THEN [tok |-> [tok EXCEPT !.str = path, !.len = del - path], path |-> NULL]
    ELSE [tok |-> [tok EXCEPT !.str = path, !.len = del - path], path |-> del + 1]

\* json_path_parse_name: the rest of the path it returns, and tok after it
json_path_parse_name(tok, path, mem) ==
    IF path = NULL \/ mem[path + 1] = NUL THEN [path |-> NULL, tok |-> tok]
    ELSE PathName(tok, path, mem, json_strchr(mem, path, DOT, -1),
                  json_strchr(mem, path, LK, -1), json_strchr(mem, path, RK, -1))

\* json_path_parse_array after its two calls of json_strchr have set the
\* locals begin and end
PathArray(array, token, begin, end) ==
    IF begin = NULL \/ begin - token.str >= token.len
    THEN [ok |-> FALSE, array |-> [array EXCEPT !.str = token.str]]
    ELSE IF end = NULL \/ end - token.str >= token.len
    THEN [ok |-> FALSE, array |-> [array EXCEPT !.str = token.str]]
    ELSE [ok |-> TRUE, array |-> [array EXCEPT !.str = begin + 1, !.len = (end - 1) - begin]]

\* the ']' looked for after the '[' at begin
PathArrayEnd(token, mem, begin) ==
    json_strchr(mem, begin, RK, token.len - (begin - token.str))

\* json_path_parse_array: its return value and array after it
json_path_parse_array(array, token, mem) ==
    LET begin == json_strchr(mem, token.str, LK, token.len)
    IN PathArray(array, token, begin, PathArrayEnd(token, mem, begin))

\* the for loop of json_lcmp; tok points into b, str into mem
RECURSIVE LcmpLoop(_, _, _, _, _, _)
LcmpLoop(tok, b, str, len, mem, i) ==
    IF i < tok.len /\ i < len
    THEN IF b[tok.str + i + 1] # mem[str + i + 1] THEN 1
         ELSE LcmpLoop(tok, b, str, len, mem, i + 1)
    ELSE 0

json_lcmp(tok, b, str, len, mem) ==
    IF str = NULL \/ len = 0 THEN 1 ELSE LcmpLoop(tok, b, str, len, mem, 0)

\* the token in slot k of ts
Slot(env, k) == IF k \in DOMAIN env.ts THEN env.ts[k] ELSE env.tj

\* toks[k] of the call, where toks is base slots into the array ts
TokAt(env, k) == Slot(env, env.base + k)

\* what json_query returns (the slot of ts it points at, or NULL) and the
\* slots of ts it has read
Result(env, k, seen) == [ret |-> IF k = NULL THEN NULL ELSE env.base + k, seen |-> seen]

\* ArrayWalk that steps over one slot for every element
RECURSIVE ArrayWalk_flat(_, _, _, _, _)
ArrayWalk_flat(env, i, j, n, seen) ==
    IF ~IntLess(j, n) THEN [null |-> FALSE, i |-> i, seen |-> seen]
    ELSE IF i + 1 > env.count THEN [null |-> TRUE, i |-> i + 1, seen |-> seen]
    ELSE ArrayWalk_flat(env, i + 1, j + 1, n, seen)

\* for (j = 0; j < n; ++j) { ... } of the array case
RECURSIVE ArrayWalk(_, _, _, _, _)
ArrayWalk(env, i, j, n, seen) ==
    IF ~IntLess(j, n) THEN [null |-> FALSE, i |-> i, seen |-> seen]
    ELSE LET it == TokAt(env, i)
             i1 == IF IsContainer(it) THEN i + it.sub + 1 ELSE i + 1
             s1 == seen \cup {env.base + i}
         IN IF i1 > env.count THEN [null |-> TRUE, i |-> i1, seen |-> s1]
            ELSE ArrayWalk(env, i1, j + 1, n, s1)

\* while (1) { ... } of json_query over the locals i, begin, name, obj and
\* path; iter is &toks[i] throughout
RECURSIVE QueryLoop(_, _)

\* the array case after the for loop has left i and null as in w
QueryElement(env, q, w, pn) ==
    IF w.null THEN Result(env, NULL, w.seen)
    ELSE IF q.path = NULL THEN Result(env, w.i, w.seen)
    ELSE QueryLoop(env, [q EXCEPT !.i = w.i, !.seen = w.seen, !.obj.index = 0,
                                  !.name = pn.tok, !.path = pn.path])

\* the array case after json_path_parse_array has returned pa.ok and set
\* array, and json_convert has returned cv.type and set n
QueryIndex(env, q, it, seen, pa, cv) ==
    IF ~pa.ok THEN Result(env, NULL, seen)
    ELSE IF q.i + 1 >= env.count THEN Result(env, NULL, seen)
    ELSE IF pa.array.len < 1 THEN Result(env, NULL, seen)
    ELSE IF cv.type # JSON_NUMBER THEN Result(env, NULL, seen)
    ELSE IF IntOf(cv.num) >= it.children THEN Result(env, NULL, seen)
    ELSE QueryElement(env, q, ArrayWalk(env, q.i + 1, 0, cv.num, seen),
                      json_path_parse_name(q.name, q.path, env.mem))

\* the key of the path matched and the path goes on: the value is entered
QueryValue(env, q, s1, pn) ==
    IF ~IsContainer(TokAt(env, q.i + 1)) THEN Result(env, NULL, s1)
    ELSE QueryLoop(env, [q EXCEPT !.i = q.i + 1, !.seen = s1,
                                  !.name = pn.tok, !.path = pn.path])

\* the array case of the loop: iter is an Array
QueryArray(env, q, it, seen, pa) ==
    QueryIndex(env, q, it, seen, pa,
               json_convert(Number(0, 0), pa.array, env.mem, env.ub))

QueryLoop(env, q) ==
    LET it == TokAt(env, q.i)
        seen == q.seen \cup {env.base + q.i}
    IN IF IsContainer(it) \/ q.begin
       THEN IF q.begin
            THEN QueryLoop(env, [q EXCEPT !.begin = FALSE, !.seen = seen,
                                          !.obj = [index |-> 0, size |-> env.count]])
            ELSE IF it.type = JSON_OBJECT
            THEN IF q.i + 1 > env.count THEN Result(env, NULL, seen)
                 ELSE QueryLoop(env, [q EXCEPT !.i = q.i + 1, !.seen = seen,
                                               !.obj = [index |-> 0, size |-> it.children]])
            ELSE QueryArray(env, q, it, seen,
                            json_path_parse_array(JSON_TOKEN_NULL, q.name, env.mem))
       ELSE IF json_lcmp(it, env.b, q.name.str, q.name.len, env.mem) = 0
            THEN IF q.path = NULL
                 THEN IF q.i + 1 > env.count THEN Result(env, NULL, seen)
                      ELSE Result(env, q.i + 1, seen)
                 ELSE IF q.i + 1 > env.count THEN Result(env, NULL, seen)
                 ELSE QueryValue(env, q, seen \cup {env.base + q.i + 1},
                                 json_path_parse_name(q.name, q.path, env.mem))
            ELSE IF q.obj.index + 1 >= q.obj.size THEN Result(env, NULL, seen)
                 ELSE IF q.i + 1 >= env.count THEN Result(env, NULL, seen)
                 ELSE LET nx == TokAt(env, q.i + 1)
                          s1 == seen \cup {env.base + q.i + 1}
                          i1 == IF IsContainer(nx) THEN q.i + (nx.sub + 2) ELSE q.i + 2
                      IN IF i1 >= env.count THEN Result(env, NULL, s1)
                         ELSE QueryLoop(env, [q EXCEPT !.i = i1, !.seen = s1,
                                                       !.obj.index = q.obj.index + 1])

\* json_query(toks, count, path) for a path that is neither null nor empty,
\* which leaves no local unset
json_query(env) ==
    IF env.count = 0 THEN Result(env, NULL, {})
    ELSE LET pn == json_path_parse_name(JSON_TOKEN_NULL, 0, env.mem)
         IN QueryLoop(env, [i |-> 0, begin |-> TRUE, name |-> pn.tok, path |-> pn.path,
                            obj |-> [index |-> 0, size |-> 0], seen |-> {}])

\* return json_convert(num, tok) of json_query_number
QueriedConvert(r, cv) == [ret |-> cv.type, num |-> cv.num, q |-> r]

\* QueriedNumber that converts whatever token the query returned
QueriedNumber_any(num, env, r) ==
    IF env.count = 0 \/ r.ret = NULL THEN [ret |-> JSON_NONE, num |-> num, q |-> r]
    ELSE QueriedConvert(r, json_convert(num, Slot(env, r.ret), env.b, env.ub))

\* json_query_number after tok = json_query(toks, count, path) has returned r
QueriedNumber(num, env, r) ==
    IF env.count = 0 \/ r.ret = NULL THEN [ret |-> JSON_NONE, num |-> num, q |-> r]
    ELSE IF Slot(env, r.ret).type # JSON_NUMBER
    THEN [ret |-> Slot(env, r.ret).type, num |-> num, q |-> r]
    ELSE QueriedConvert(r, json_convert(num, Slot(env, r.ret), env.b, env.ub))

\* json_query_number: the return value and *num after it
json_query_number(num, env) == QueriedNumber(num, env, json_query(env))

\* *size = json_cpy(buffer, max, tok) of json_query_string
QueriedCpy(r, type, cp) == [ret |-> type, buffer |-> cp.dst, size |-> cp.ret, q |-> r]

\* json_query_string after tok = json_query(toks, count, path) has returned r
QueriedString(buffer, max, size, env, r) ==
    IF env.count = 0 \/ r.ret = NULL
    THEN [ret |-> JSON_NONE, buffer |-> buffer, size |-> size, q |-> r]
    ELSE IF Slot(env, r.ret).type # JSON_STRING
    THEN [ret |-> Slot(env, r.ret).type, buffer |-> buffer, size |-> size, q |-> r]
    ELSE QueriedCpy(r, Slot(env, r.ret).type, json_cpy(buffer, max, Slot(env, r.ret), env.b))

\* json_query_string: the return value, the buffer and *size after it
json_query_string(buffer, max, size, env) ==
    QueriedString(buffer, max, size, env, json_query(env))

\* json_query_type after tok = json_query(toks, count, path) has returned r
QueriedType(env, r) ==
    IF env.count = 0 \/ r.ret = NULL THEN [ret |-> JSON_NONE, q |-> r]
    ELSE [ret |-> Slot(env, r.ret).type, q |-> r]

\* json_query_type
json_query_type(env) == QueriedType(env, json_query(env))

\* ------------------------------------------------------------------------
\* Documents
\* ------------------------------------------------------------------------
\* bound: every buffer of at most MaxLen bytes over ShortBytes is a document
MaxLen == 3
\* bound: capacities 1..MaxCap are tried for every document
MaxCap == 2
\* bound: a capacity no document of the corpus fills
Roomy == 8
\* bound: calls a tokenizer client makes on one iterator
MaxCalls == 4
\* bound: iterations of the loop of json_num that are followed
MaxCount == 8
\* what the undefined pointer difference may leave in an int
UBInts == {-7, 0, 1000}

ShortBytes == {LB, RB, LK, RK, QT, CM, CL, SP, Ch.d1, Ch.a}

ShortDocs == UNION {[1..n -> ShortBytes] : n \in 1..MaxLen}

\* {"a":1,"b":"hi"}
Doc_ab == <<LB, QT, Ch.a, QT, CL, Ch.d1, CM, QT, Lb, QT, CL, QT, Ch.h, Ch.i, QT, RB>>
\* {"a":[10,20,30]}
Doc_xs == <<LB, QT, Ch.a, QT, CL, LK, Ch.d1, Ch.d0, CM, Ch.d2, Ch.d0, CM, Ch.d3, Ch.d0, RK, RB>>
\* [[1,2],[3,4]]
Doc_nest == <<LK, LK, Ch.d1, CM, Ch.d2, RK, CM, LK, Ch.d3, CM, Ch.d4, RK, RK>>
\* [{"a":1,"b"=[1,{}]},2]
Doc_mixed == <<LK, LB, QT, Ch.a, QT, CL, Ch.d1, CM, QT, Lb, QT, EQ, LK, Ch.d1, CM, LB, RB, RK, RB, CM, Ch.d2, RK>>
\* {"a":{}}
Doc_lastobj == <<LB, QT, Ch.a, QT, CL, LB, RB, RB>>
\* [[]]
Doc_lastarr == <<LK, LK, RK, RK>>
\* [1 ,2]
Doc_space == <<LK, Ch.d1, SP, CM, Ch.d2, RK>>
\* "a"
Doc_str == <<QT, Ch.a, QT>>
\* "ab  (the string is not closed)
Doc_openstr == <<QT, Ch.a, Lb>>
\* ["a\"b"]
Doc_esc == <<LK, QT, Ch.a, BSL, QT, Lb, QT, RK>>
\* ["\1"]
Doc_badesc == <<LK, QT, BSL, Ch.d1, QT, RK>>
\* [1 NUL 2]
Doc_nul == <<LK, Ch.d1, NUL, Ch.d2, RK>>
\* [1,a,2]
Doc_bad == <<LK, Ch.d1, CM, Ch.a, CM, Ch.d2, RK>>
\* [t,f,n,-1]
Doc_kw == <<LK, Lt, CM, Lf, CM, Ln, CM, MINUS, Ch.d1, RK>>
\* }{{{}}
Doc_stray == <<RB, LB, LB, LB, RB, RB>>
\* [["1,][1]]
Doc_requote == <<LK, LK, QT, Ch.d1, CM, RK, LK, Ch.d1, RK, RK>>
\* ["1a
Doc_garbage == <<LK, QT, Ch.d1, Ch.a>>
\* {{"}{1
Doc_loop == <<LB, LB, QT, RB, LB, Ch.d1>>
\* 1,1,
Doc_tail == <<Ch.d1, CM, Ch.d1, CM>>
\* [1,2]
Doc_pair == <<LK, Ch.d1, CM, Ch.d2, RK>>
\* {{:}}
Doc_sep == <<LB, LB, CL, RB, RB>>
\* "}
Doc_quote == <<QT, RB>>
\* }""{{"}
Doc_inverted == <<RB, QT, QT, LB, LB, QT, RB>>

Corpus == {Doc_ab, Doc_xs, Doc_nest, Doc_mixed, Doc_lastobj, Doc_lastarr, Doc_space,
           Doc_str, Doc_openstr, Doc_esc, Doc_badesc, Doc_nul, Doc_bad, Doc_kw,
           Doc_stray, Doc_requote, Doc_garbage, Doc_loop, Doc_tail, Doc_pair,
           Doc_sep, Doc_quote, Doc_inverted}

\* the documents of the corpus that are one well formed object or array
RootDocs == {Doc_ab, Doc_xs, Doc_nest, Doc_mixed, Doc_lastobj, Doc_lastarr, Doc_esc,
             Doc_kw, Doc_pair}

Docs == Corpus \cup ShortDocs

\* ------------------------------------------------------------------------
\* State
\* ------------------------------------------------------------------------
VARIABLES
    buf,      \* the document: json / length of the caller
    pc,       \* what the caller is doing
    iter,     \* the iterator of the tokenizer client, or iter of json_num
    tok,      \* the token of the last json_read
    pair,     \* the pair of the last json_parse
    ret,      \* the return statement the last json_read took
    calls,    \* calls made on the iterator; iterations of json_num
    count,    \* count of json_num
    num,      \* what json_num returned
    max,      \* capacity passed to json_load
    toks,     \* the slots of toks json_load has written, by index
    read,     \* *read
    stack,    \* the activations of json_load, innermost last
    status,   \* what the outermost json_load returned
    path,     \* the path of the last query
    found,    \* what its json_query returned: a slot of toks, or NULL
    hit,      \* the token in that slot
    seen,     \* the slots of toks that json_query read
    subpath,  \* the path of the last sub-query
    subfound, \* what the sub-query returned
    subseen,  \* the slots of toks the sub-query read
    number,   \* *num of json_convert and json_query_number
    buffer,   \* the bytes written to dst of json_cpy, by index
    cap,      \* max of json_cpy and json_query_string
    size,     \* *size of json_query_string
    rc,       \* the int json_convert, json_cpy or a typed query returned
    json_is_initialized, \* the flag of json_init
    tables,   \* the entries of the six tables for the bytes of InitBytes
    thr,      \* where each thread stands in json_init, and what it read after
    solo      \* a json_init ran to its end before any other thread called it

vars == <<buf, pc, iter, tok, pair, ret, calls, count, num, max, toks, read, stack, status,
          path, found, hit, seen, subpath, subfound, subseen, number, buffer, cap, size, rc,
          json_is_initialized, tables, thr, solo>>

readVars == <<iter, tok, pair, ret, calls>>
numVars == <<count, num>>
loadVars == <<max, toks, read, stack, status>>
queryVars == <<path, found, hit, seen, subpath, subfound, subseen>>
utilVars == <<number, buffer, cap, size, rc>>
initVars == <<json_is_initialized, tables, thr, solo>>
callerVars == <<buf, pc, readVars, numVars, loadVars, queryVars, utilVars>>

NoToks == [k \in {} |-> JSON_TOKEN_NULL]

NoBytes == [k \in {} |-> NUL]

\* the caller's variables before any call
Idle ==
    /\ pc = "idle"
    /\ iter = JSON_ITER_NULL
    /\ tok = JSON_TOKEN_NULL
    /\ pair = [name |-> JSON_TOKEN_NULL, value |-> JSON_TOKEN_NULL]
    /\ ret = "none"
    /\ calls = 0
    /\ count = 0
    /\ num = 0
    /\ max = 0
    /\ toks = NoToks
    /\ read = 0
    /\ stack = <<>>
    /\ status = JSON_OK
    /\ path = <<>>
    /\ found = NULL
    /\ hit = JSON_TOKEN_NULL
    /\ seen = {}
    /\ subpath = <<>>
    /\ subfound = NULL
    /\ subseen = {}
    /\ number = Number(7, 0)
    /\ buffer = NoBytes
    /\ cap = 0
    /\ size = -1
    /\ rc = 0

\* bound: the threads that call json_init
NThreads == 2

Threads == 1..NThreads

\* what a thread has read from a table: nothing yet
NoRead == [tbl |-> "none", c |-> NUL, st |-> 0]

\* a thread that has not called json_init
IdleThread == [pc |-> "idle", i |-> 0, early |-> FALSE, started |-> FALSE, saw |-> NoRead]

\* json_init has run alone before the caller does anything
Initialized ==
    /\ json_is_initialized = 1
    /\ tables = FullTables
    /\ thr = [t \in Threads |-> IdleThread]
    /\ solo = TRUE

Init == buf \in Docs /\ Idle /\ Initialized

\* ------------------------------------------------------------------------
\* A client of the tokenizer: json_begin, then json_read and json_parse
\* ------------------------------------------------------------------------
Begin ==
    /\ pc = "idle"
    /\ pc' = "client"
    /\ iter' = json_begin(0, Len(buf))
    /\ UNCHANGED <<buf, tok, pair, ret, calls>>
    /\ UNCHANGED numVars
    /\ UNCHANGED loadVars
    /\ UNCHANGED queryVars
    /\ UNCHANGED utilVars
    /\ UNCHANGED initVars

Read ==
    /\ pc = "client"
    /\ calls < MaxCalls
    /\ \E ub \in UBInts :
         LET r == json_read(iter, buf, ub)
         IN /\ iter' = r.iter
            /\ tok' = r.obj
            /\ ret' = r.ret
    /\ calls' = calls + 1
    /\ UNCHANGED <<buf, pc, pair>>
    /\ UNCHANGED numVars
    /\ UNCHANGED loadVars
    /\ UNCHANGED queryVars
    /\ UNCHANGED utilVars
    /\ UNCHANGED initVars

Parse ==
    /\ pc = "client"
    /\ calls < MaxCalls
    /\ \E ub \in UBInts :
         LET r == json_parse(pair, iter, buf, ub)
         IN /\ iter' = r.iter
            /\ pair' = r.pair
            /\ ret' = r.ret
    /\ calls' = calls + 1
    /\ UNCHANGED <<buf, pc, tok>>
    /\ UNCHANGED numVars
    /\ UNCHANGED loadVars
    /\ UNCHANGED queryVars
    /\ UNCHANGED utilVars
    /\ UNCHANGED initVars

NextRead == Begin \/ Read \/ Parse

SpecRead == Init /\ [][NextRead]_vars

\* ------------------------------------------------------------------------
\* Quoted strings with bytes above 127
\* ------------------------------------------------------------------------
\* bound: bytes between the quotes of a string of Utf8Docs
MaxUtf8 == 4

\* one lead byte of each length, one continuation byte, one byte that is
\* neither, a letter and the NUL
Utf8Bytes == {Ch.a, LEAD2, LEAD3, LEAD4, CONT, STRAY, NUL}

Utf8Bodies == UNION {[1..n -> Utf8Bytes] : n \in 1..MaxUtf8}

\* the string alone (depth 0) and as the one element of an array (depth 1)
Utf8Docs == {<<QT>> \o w \o <<QT>> : w \in Utf8Bodies}
               \cup {<<LK, QT>> \o w \o <<QT, RK>> : w \in Utf8Bodies}

InitUtf8 == buf \in Utf8Docs /\ Idle /\ Initialized

SpecUtf8 == InitUtf8 /\ [][NextRead]_vars

\* ------------------------------------------------------------------------
\* json_num
\* ------------------------------------------------------------------------
\* iter = json_begin(json, length); iter = json_read(&tok, &iter);
NumBegin ==
    /\ pc = "idle"
    /\ Len(buf) # 0
    /\ \E ub \in UBInts :
         LET r == json_read(json_begin(0, Len(buf)), buf, ub)
         IN /\ iter' = r.iter
            /\ tok' = r.obj
            /\ ret' = r.ret
    /\ count' = 0
    /\ calls' = 0
    /\ pc' = "num"
    /\ UNCHANGED <<buf, pair, num>>
    /\ UNCHANGED loadVars
    /\ UNCHANGED queryVars
    /\ UNCHANGED utilVars
    /\ UNCHANGED initVars

\* while (!iter.err && iter.src && tok.str)
NumCond == iter.err = 0 /\ iter.src # NULL /\ tok.str # NULL

\* count += (1 + tok.sub); iter = json_read(&tok, &iter);
NumStep ==
    /\ pc = "num"
    /\ NumCond
    /\ calls < MaxCount
    /\ \E ub \in UBInts :
         LET r == json_read(iter, buf, ub)
         IN /\ iter' = r.iter
            /\ tok' = r.obj
            /\ ret' = r.ret
    /\ count' = count + (1 + tok.sub)
    /\ calls' = calls + 1
    /\ UNCHANGED <<buf, pc, pair, num>>
    /\ UNCHANGED loadVars
    /\ UNCHANGED queryVars
    /\ UNCHANGED utilVars
    /\ UNCHANGED initVars

\* return count;
NumReturn ==
    /\ pc = "num"
    /\ ~NumCond
    /\ num' = count
    /\ pc' = "num_done"
    /\ UNCHANGED <<buf, iter, tok, pair, ret, calls, count>>
    /\ UNCHANGED loadVars
    /\ UNCHANGED queryVars
    /\ UNCHANGED utilVars
    /\ UNCHANGED initVars

\* ------------------------------------------------------------------------
\* json_load.  An activation holds the locals iter and tok and where it is:
\* "while" (the test of the loop), "call" (the test for a container after
\* the store) or "next" (the json_read at the end of the body).
\* ------------------------------------------------------------------------
\* the head of json_load, up to the loop: either it returns a status or the
\* activation reaches the loop
LoadEntry(m, rd, str, len, b, ub) ==
    IF len = 0 \/ m = 0 THEN [k |-> "return", status |-> JSON_INVAL]
    ELSE IF rd >= m THEN [k |-> "return", status |-> JSON_OUT_OF_TOKEN]
    ELSE LET r == json_read(json_begin(str, len), b, ub)
         IN IF r.iter.err # 0 /\ r.iter.len # 0
            THEN [k |-> "return", status |-> JSON_PARSING_ERROR]
            ELSE [k |-> "loop", status |-> JSON_OK,
                  frame |-> [iter |-> r.iter, tok |-> r.obj, at |-> "while"]]

Top == stack[Len(stack)]
SetTop(f) == [stack EXCEPT ![Len(stack)] = f]

\* a status other than JSON_OK is handed down by every caller
Fail(st) ==
    /\ stack' = <<>>
    /\ status' = st
    /\ pc' = "load_done"

\* the capacities a caller passes: small ones, the result of json_num, and
\* one the document does not fill
Caps == ((1..MaxCap) \cup {num, num + 1, Roomy}) \ {0}

\* the outermost call json_load(toks, max, &read, json, length) with *read = 0
LoadBegin ==
    /\ pc = "num_done"
    /\ \E m \in Caps, ub \in UBInts :
         LET e == LoadEntry(m, 0, 0, Len(buf), buf, ub)
         IN /\ max' = m
            /\ IF e.k = "return"
               THEN Fail(e.status)
               ELSE /\ stack' = <<e.frame>>
                    /\ pc' = "load"
                    /\ status' = JSON_OK
    /\ read' = 0
    /\ toks' = NoToks
    /\ UNCHANGED <<buf>>
    /\ UNCHANGED readVars
    /\ UNCHANGED numVars
    /\ UNCHANGED queryVars
    /\ UNCHANGED utilVars
    /\ UNCHANGED initVars

\* toks[*read] = tok; *read += 1; if (*read > max) return JSON_OUT_OF_TOKEN;
LoadStore ==
    /\ pc = "load"
    /\ Top.at = "while"
    /\ Top.iter.len # 0
    /\ toks' = [k \in DOMAIN toks \cup {read} |-> IF k = read THEN Top.tok ELSE toks[k]]
    /\ read' = read + 1
    /\ IF read + 1 > max
       THEN Fail(JSON_OUT_OF_TOKEN)
       ELSE /\ stack' = SetTop([Top EXCEPT !.at = "call"])
            /\ UNCHANGED <<pc, status>>
    /\ UNCHANGED <<buf, max>>
    /\ UNCHANGED readVars
    /\ UNCHANGED numVars
    /\ UNCHANGED queryVars
    /\ UNCHANGED utilVars
    /\ UNCHANGED initVars

\* status = json_load(toks, max, read, toks[*read-1].str, toks[*read-1].len);
\* if (status != JSON_OK) return status;
LoadCall ==
    /\ pc = "load"
    /\ Top.at = "call"
    /\ IsContainer(toks[read - 1])
    /\ \E ub \in UBInts :
         LET e == LoadEntry(max, read, toks[read - 1].str, toks[read - 1].len, buf, ub)
         IN IF e.k = "return"
            THEN Fail(e.status)
            ELSE /\ stack' = Append(SetTop([Top EXCEPT !.at = "next"]), e.frame)
                 /\ UNCHANGED <<pc, status>>
    /\ UNCHANGED <<buf, max, toks, read>>
    /\ UNCHANGED readVars
    /\ UNCHANGED numVars
    /\ UNCHANGED queryVars
    /\ UNCHANGED utilVars
    /\ UNCHANGED initVars

\* iter = json_read(&tok, &iter);
\* if (iter.err && iter.src && iter.len) return JSON_PARSING_ERROR;
LoadNext ==
    /\ pc = "load"
    /\ \/ Top.at = "next"
       \/ Top.at = "call" /\ ~IsContainer(toks[read - 1])
    /\ \E ub \in UBInts :
         LET r == json_read(Top.iter, buf, ub)
         IN IF r.iter.err # 0 /\ r.iter.src # NULL /\ r.iter.len # 0
            THEN Fail(JSON_PARSING_ERROR)
            ELSE /\ stack' = SetTop([iter |-> r.iter, tok |-> r.obj, at |-> "while"])
                 /\ UNCHANGED <<pc, status>>
    /\ UNCHANGED <<buf, max, toks, read>>
    /\ UNCHANGED readVars
    /\ UNCHANGED numVars
    /\ UNCHANGED queryVars
    /\ UNCHANGED utilVars
    /\ UNCHANGED initVars

\* the loop ends: return status; the caller, if any, goes on after its call
LoadReturn ==
    /\ pc = "load"
    /\ Top.at = "while"
    /\ Top.iter.len = 0
    /\ IF Len(stack) = 1
       THEN /\ stack' = <<>>
            /\ status' = JSON_OK
            /\ pc' = "load_done"
       ELSE /\ stack' = SubSeq(stack, 1, Len(stack) - 1)
            /\ UNCHANGED <<pc, status>>
    /\ UNCHANGED <<buf, max, toks, read>>
    /\ UNCHANGED readVars
    /\ UNCHANGED numVars
    /\ UNCHANGED queryVars
    /\ UNCHANGED utilVars
    /\ UNCHANGED initVars

Next ==
    \/ NumBegin \/ NumStep \/ NumReturn
    \/ LoadBegin \/ LoadStore \/ LoadCall \/ LoadNext \/ LoadReturn

Spec == Init /\ [][Next]_vars

\* ------------------------------------------------------------------------
\* Callers of json_query and of the typed queries, on a loaded array
\* ------------------------------------------------------------------------
\* bound: every path of at most MaxPath bytes over PathBytes is queried
MaxPath == 3
\* bound: the capacities 0..MaxDst are passed to json_cpy
MaxDst == 3
\* bound: every token of at most MaxTok bytes over NumBytes is converted
MaxTok == 4

PathBytes == {Ch.a, Lb, DOT, LK, RK, Ch.d0, Ch.d1}

ShortPaths == UNION {[1..n -> PathBytes] : n \in 1..MaxPath}

\* a[1]
Path_a1 == <<Ch.a, LK, Ch.d1, RK>>
\* a[3]
Path_a3 == <<Ch.a, LK, Ch.d3, RK>>
\* a[2]
Path_a2 == <<Ch.a, LK, Ch.d2, RK>>
\* b[0]
Path_b0 == <<Lb, LK, Ch.d0, RK>>
\* b[1]
Path_b1 == <<Lb, LK, Ch.d1, RK>>
\* [1][0]
Path_10 == <<LK, Ch.d1, RK, LK, Ch.d0, RK>>
\* a[0].b
Path_a0b == <<Ch.a, LK, Ch.d0, RK, DOT, Lb>>
\* a.b[0]
Path_ab0 == <<Ch.a, DOT, Lb, LK, Ch.d0, RK>>
\* a[1e0]
Path_a1e0 == <<Ch.a, LK, Ch.d1, Le, Ch.d0, RK>>

Paths == ShortPaths \cup {Path_a1, Path_a2, Path_a3, Path_b0, Path_b1, Path_10,
                          Path_a0b, Path_ab0, Path_a1e0}

\* the paths of the typed queries
TypedPaths == {p \in Paths : Len(p) < MaxPath \/ p \notin ShortPaths}

\* the paths of sub-queries
SubPaths == {p \in ShortPaths : Len(p) <= 2} \cup {Path_b0, Path_b1}

\* {"a":{"b":[1]}}
Doc_sub == <<LB, QT, Ch.a, QT, CL, LB, QT, Lb, QT, CL, LK, Ch.d1, RK, RB, RB>>
\* {"a":["b",1]}
Doc_scalar == <<LB, QT, Ch.a, QT, CL, LK, QT, Lb, QT, CM, Ch.d1, RK, RB>>

\* {"a":[[1,2],{"b":1},3]}
Doc_skip == <<LB, QT, Ch.a, QT, CL, LK, LK, Ch.d1, CM, Ch.d2, RK, CM,
              LB, QT, Lb, QT, CL, Ch.d1, RB, CM, Ch.d3, RK, RB>>

\* {"a":[],"b":1}
Doc_empty == <<LB, QT, Ch.a, QT, CL, LK, RK, CM, QT, Lb, QT, CL, Ch.d1, RB>>

QueryDocs == {Doc_ab, Doc_xs, Doc_nest, Doc_mixed, Doc_lastobj, Doc_sub, Doc_scalar, Doc_skip,
              Doc_empty}

\* the array of a caller is sized with json_num, or has one slot to spare
Sized == pc = "load_done" /\ status = JSON_OK /\ max \in {num, num + 1}

\* what a slot after the loaded tokens may hold
JunkToks == {JSON_TOKEN_NULL,
             [JSON_TOKEN_NULL EXCEPT !.type = JSON_OBJECT, !.children = 1, !.sub = 1]}

\* what the byte after the terminating NUL of the path may be
PathJunk == {NUL, DOT}

\* the memory of a path: its bytes, the NUL, the byte after it, and a NUL
PathMem(pth, pj) == pth \o <<NUL, pj, NUL>>

\* the document as a C string
DocMem == buf \o <<NUL>>

\* json_query(toks + base, n, pth) of a caller
Env(base, n, pth, tj, pj, ub) ==
    [ts |-> toks, b |-> DocMem, mem |-> PathMem(pth, pj), tj |-> tj, ub |-> ub,
     base |-> base, count |-> n]

\* The unknowns of a call are only enumerated where the call can meet them:
\* the byte after the path is read only when a '[' of the path has no ']'
\* after it,
PathJunkFor(pth) ==
    IF \E k \in DOMAIN pth : pth[k] = LK /\ \A j \in (k + 1)..Len(pth) : pth[j] # RK
    THEN PathJunk ELSE {NUL}

\* json_ipow overflows only for an exponent, which needs an 'e' or 'E' in
\* the index of the path or in the document,
UbFor(pth) ==
    IF \E k \in DOMAIN pth : pth[k] \in {Le, UE} THEN UBInts
    ELSE IF \E k \in DOMAIN buf : buf[k] \in {Le, UE} THEN UBInts
    ELSE {0}

\* and the token of an unwritten slot only when such a slot is read
JunkFor(base, n, pth, pj, ub) ==
    IF json_query(Env(base, n, pth, JSON_TOKEN_NULL, pj, ub)).seen \subseteq DOMAIN toks
    THEN {JSON_TOKEN_NULL} ELSE JunkToks

InitQuery == buf \in QueryDocs /\ Idle /\ Initialized

\* t = json_query(toks, read, path)
Query ==
    /\ Sized
    /\ \E pth \in Paths : \E pj \in PathJunkFor(pth), ub \in UbFor(pth) :
       \E tj \in JunkFor(0, read, pth, pj, ub) :
         LET env == Env(0, read, pth, tj, pj, ub)
         IN \E r \in {json_query(env)} :
            /\ path' = pth
            /\ found' = r.ret
            /\ hit' = IF r.ret = NULL THEN JSON_TOKEN_NULL ELSE Slot(env, r.ret)
            /\ seen' = r.seen
    /\ pc' = "queried"
    /\ UNCHANGED <<buf, subpath, subfound, subseen>>
    /\ UNCHANGED readVars
    /\ UNCHANGED numVars
    /\ UNCHANGED loadVars
    /\ UNCHANGED utilVars
    /\ UNCHANGED initVars

\* json_query(t, t->sub, subpath) on the Object t a query returned
SubQuery ==
    /\ pc = "queried"
    /\ found \in DOMAIN toks
    /\ hit.type = JSON_OBJECT
    /\ \E pth \in SubPaths : \E pj \in PathJunkFor(pth), ub \in UbFor(pth) :
       \E tj \in JunkFor(found, hit.sub, pth, pj, ub) :
         \E r \in {json_query(Env(found, hit.sub, pth, tj, pj, ub))} :
            /\ subpath' = pth
            /\ subfound' = r.ret
            /\ subseen' = r.seen
    /\ pc' = "subqueried"
    /\ UNCHANGED <<buf, path, found, hit, seen>>
    /\ UNCHANGED readVars
    /\ UNCHANGED numVars
    /\ UNCHANGED loadVars
    /\ UNCHANGED utilVars
    /\ UNCHANGED initVars

\* json_query_number(&number, toks, read, path)
QueryNumber ==
    /\ Sized
    /\ \E pth \in TypedPaths : \E pj \in PathJunkFor(pth), ub \in UbFor(pth) :
       \E tj \in JunkFor(0, read, pth, pj, ub) :
         LET env == Env(0, read, pth, tj, pj, ub)
         IN \E r \in {json_query_number(number, env)} :
            /\ path' = pth
            /\ found' = r.q.ret
            /\ hit' = IF r.q.ret = NULL THEN JSON_TOKEN_NULL ELSE Slot(env, r.q.ret)
            /\ seen' = r.q.seen
            /\ number' = r.num
            /\ rc' = r.ret
    /\ pc' = "number_done"
    /\ UNCHANGED <<buf, subpath, subfound, subseen, buffer, cap, size>>
    /\ UNCHANGED readVars
    /\ UNCHANGED numVars
    /\ UNCHANGED loadVars
    /\ UNCHANGED initVars

\* json_query_string(buffer, cap, &size, toks, read, path)
QueryString ==
    /\ Sized
    /\ \E pth \in TypedPaths, mx \in 1..MaxDst : \E pj \in PathJunkFor(pth), ub \in UbFor(pth) :
       \E tj \in JunkFor(0, read, pth, pj, ub) :
         LET env == Env(0, read, pth, tj, pj, ub)
         IN \E r \in {json_query_string(buffer, mx, size, env)} :
            /\ path' = pth
            /\ found' = r.q.ret
            /\ hit' = IF r.q.ret = NULL THEN JSON_TOKEN_NULL ELSE Slot(env, r.q.ret)
            /\ seen' = r.q.seen
            /\ buffer' = r.buffer
            /\ size' = r.size
            /\ cap' = mx
            /\ rc' = r.ret
    /\ pc' = "string_done"
    /\ UNCHANGED <<buf, subpath, subfound, subseen, number>>
    /\ UNCHANGED readVars
    /\ UNCHANGED numVars
    /\ UNCHANGED loadVars
    /\ UNCHANGED initVars

\* json_query_type(toks, read, path)
QueryType ==
    /\ Sized
    /\ \E pth \in TypedPaths : \E pj \in PathJunkFor(pth), ub \in UbFor(pth) :
       \E tj \in JunkFor(0, read, pth, pj, ub) :
         LET env == Env(0, read, pth, tj, pj, ub)
         IN \E r \in {json_query_type(env)} :
            /\ path' = pth
            /\ found' = r.q.ret
            /\ hit' = IF r.q.ret = NULL THEN JSON_TOKEN_NULL ELSE Slot(env, r.q.ret)
            /\ seen' = r.q.seen
            /\ rc' = r.ret
    /\ pc' = "type_done"
    /\ UNCHANGED <<buf, subpath, subfound, subseen, number, buffer, cap, size>>
    /\ UNCHANGED readVars
    /\ UNCHANGED numVars
    /\ UNCHANGED loadVars
    /\ UNCHANGED initVars

NextQuery ==
    \/ NumBegin \/ NumStep \/ NumReturn
    \/ LoadBegin \/ LoadStore \/ LoadCall \/ LoadNext \/ LoadReturn
    \/ Query \/ SubQuery \/ QueryNumber \/ QueryString \/ QueryType

SpecQuery == InitQuery /\ [][NextQuery]_vars

\* ------------------------------------------------------------------------
\* Callers of json_convert and json_cpy, on a token that is the whole of buf
\* ------------------------------------------------------------------------
NumBytes == {Ch.d0, Ch.d1, MINUS, DOT, Le, SP, Ch.a}

NumToks == UNION {[1..n -> NumBytes] : n \in 1..MaxTok}

WholeTok == [JSON_TOKEN_NULL EXCEPT !.str = 0, !.len = Len(buf)]

InitUtil == buf \in NumToks /\ Idle /\ Initialized

\* rc = json_convert(&number, &tok)
Convert ==
    /\ pc = "idle"
    /\ \E ub \in UBInts :
         \E r \in {json_convert(number, WholeTok, buf, ub)} :
            /\ number' = r.num
            /\ rc' = r.type
    /\ pc' = "converted"
    /\ UNCHANGED <<buf, buffer, cap, size>>
    /\ UNCHANGED readVars
    /\ UNCHANGED numVars
    /\ UNCHANGED loadVars
    /\ UNCHANGED queryVars
    /\ UNCHANGED initVars

\* rc = json_cpy(buffer, cap, &tok)
Cpy ==
    /\ pc = "idle"
    /\ \E mx \in 0..MaxDst :
         \E r \in {json_cpy(buffer, mx, WholeTok, buf)} :
            /\ buffer' = r.dst
            /\ rc' = r.ret
            /\ cap' = mx
    /\ pc' = "copied"
    /\ UNCHANGED <<buf, number, size>>
    /\ UNCHANGED readVars
    /\ UNCHANGED numVars
    /\ UNCHANGED loadVars
    /\ UNCHANGED queryVars
    /\ UNCHANGED initVars

NextUtil == Convert \/ Cpy

SpecUtil == InitUtil /\ [][NextUtil]_vars

\* ------------------------------------------------------------------------
\* Threads that call json_init (directly or through json_begin) and then
\* read a table entry, as json_read does.  Each read and each store of a
\* shared location is one step; a read that races with a store yields the
\* entry before or after it.
\* ------------------------------------------------------------------------
\* json_init without  if (json_is_initialized) return;
InitGate_open(flag) == "set"

\* if (json_is_initialized) return;
InitGate(flag) == IF flag # 0 THEN "returned" ELSE "set"

InitThreads ==
    /\ buf = <<>>
    /\ Idle
    /\ json_is_initialized = 0
    /\ tables = ZeroTables
    /\ thr = [t \in Threads |-> IdleThread]
    /\ solo = FALSE

\* the thread calls json_init
InitCall(t) ==
    /\ thr[t].pc = "idle"
    /\ thr' = [thr EXCEPT ![t] = [pc |-> "check", i |-> 0, early |-> FALSE,
                                  started |-> TRUE, saw |-> NoRead]]
    /\ UNCHANGED <<json_is_initialized, tables, solo>>
    /\ UNCHANGED callerVars

\* if (json_is_initialized) return;
InitCheck(t) ==
    /\ thr[t].pc = "check"
    /\ thr' = [thr EXCEPT ![t].pc = InitGate(json_is_initialized),
                          ![t].early = (InitGate(json_is_initialized) = "returned")]
    /\ UNCHANGED <<json_is_initialized, tables, solo>>
    /\ UNCHANGED callerVars

\* json_is_initialized = 1;
InitSet(t) ==
    /\ thr[t].pc = "set"
    /\ json_is_initialized' = 1
    /\ thr' = [thr EXCEPT ![t].pc = "fill", ![t].i = 1]
    /\ UNCHANGED <<tables, solo>>
    /\ UNCHANGED callerVars

\* the next store to a table
InitStore(t) ==
    /\ thr[t].pc = "fill"
    /\ thr[t].i <= Len(InitStores)
    /\ tables' = [tables EXCEPT ![InitStores[thr[t].i].tbl][InitStores[thr[t].i].c] =
                                   InitStores[thr[t].i].st]
    /\ thr' = [thr EXCEPT ![t].i = thr[t].i + 1]
    /\ UNCHANGED <<json_is_initialized, solo>>
    /\ UNCHANGED callerVars

\* json_init returns after its last store
InitReturn(t) ==
    /\ thr[t].pc = "fill"
    /\ thr[t].i > Len(InitStores)
    /\ thr' = [thr EXCEPT ![t].pc = "returned"]
    /\ solo' = (solo \/ \A u \in Threads \ {t} : ~thr[u].started)
    /\ UNCHANGED <<json_is_initialized, tables>>
    /\ UNCHANGED callerVars

\* the thread reads tbl[c], as json_read does with iter.go[*cur]
TableRead(t) ==
    /\ thr[t].pc = "returned"
    /\ \E tbl \in Tables, c \in InitBytes :
         thr' = [thr EXCEPT ![t].pc = "idle",
                            ![t].saw = [tbl |-> tbl, c |-> c, st |-> tables[tbl][c]]]
    /\ UNCHANGED <<json_is_initialized, tables, solo>>
    /\ UNCHANGED callerVars

NextThreads ==
    \/ \E t \in Threads : InitCall(t)
    \/ \E t \in Threads : InitCheck(t)
    \/ \E t \in Threads : InitSet(t)
    \/ \E t \in Threads : InitStore(t)
    \/ \E t \in Threads : InitReturn(t)
    \/ \E t \in Threads : TableRead(t)

SpecThreads == InitThreads /\ [][NextThreads]_vars

\* ------------------------------------------------------------------------
\* Properties
\* ------------------------------------------------------------------------
Loaded == pc = "load_done" /\ status = JSON_OK

\* the bytes of token t lie strictly inside the bytes of container c
NestedIn(t, c) ==
    /\ t.str # NULL
    /\ c.str < t.str
    /\ t.str < c.str + c.len
    /\ t.str + t.len <= c.str + c.len

\* C1: after json_load returned JSON_OK, every container toks[i] has
\* i + sub < *read, the tokens at i+1 .. i+sub are the tokens nested in it,
\* and the token at i + sub + 1, when there is one, is not nested in it.
C1_SubtreeSpan ==
    Loaded =>
      \A i \in 0..(read - 1) :
         IsContainer(toks[i]) =>
            /\ i + toks[i].sub < read
            /\ \A j \in (i + 1)..(i + toks[i].sub) : NestedIn(toks[j], toks[i])
            /\ (i + toks[i].sub + 1 < read => ~NestedIn(toks[i + toks[i].sub + 1], toks[i]))

\* the root of document b as json_read counts it: b is read as the only
\* element of an array, which makes its root the token that is yielded
RootTok(b) == json_read(json_begin(0, Len(b) + 2), <<LK>> \o b \o <<RK>>, 0).obj

C3_NumEqualsRead == Loaded => read = num

\* C4: json_load never stores a token at an index >= max, and a document
\* that needs more than max tokens gives JSON_OUT_OF_TOKEN with only slots
\* below max written.
C4_WritesBelowMax == \A k \in DOMAIN toks : k < max

\* C5: with max = json_num(doc) > 0 and no error reported by the tokenizer
\* (neither to json_num nor to json_load), json_load returns JSON_OK.
C5_NumSuffices ==
    (pc = "load_done" /\ num > 0 /\ max = num
        /\ ret # "failed" /\ status # JSON_PARSING_ERROR) => status = JSON_OK

\* the byte range of t is inside the document
InBuffer(t) == t.str # NULL => (0 <= t.str /\ 0 <= t.len /\ t.str + t.len <= Len(buf))

\* the tokens json_read has handed out and json_load has stored
Handed == {tok, pair.name, pair.value} \cup {toks[k] : k \in DOMAIN toks}
                \cup {stack[k].tok : k \in DOMAIN stack}

\* C6: every token json_read yields or json_load stores has its byte range
\* inside the buffer.
C6_TokensInBuffer == \A t \in Handed : InBuffer(t)

\* the direct children of toks[i], counted by stepping 1 + sub from i + 1
\* to the end of the subtree
RECURSIVE Direct(_, _, _)
Direct(k, last, n) ==
    IF k > last \/ k \notin DOMAIN toks THEN n
    ELSE Direct(k + 1 + toks[k].sub, last, n + 1)

\* C7: in a loaded array the direct children of a container, counted by
\* sub-skipping, are children for an Array and 2 * children for an Object.
C7_ChildCount ==
    Loaded =>
      \A i \in 0..(read - 1) :
         /\ toks[i].type = JSON_ARRAY =>
               Direct(i + 1, i + toks[i].sub, 0) = toks[i].children
         /\ toks[i].type = JSON_OBJECT =>
               Direct(i + 1, i + toks[i].sub, 0) = 2 * toks[i].children

\* the byte at offset p of the document, NUL outside it
At(p) == IF p >= 0 /\ p < Len(buf) THEN buf[p + 1] ELSE NUL

\* C8: a String token starts after its opening quote and ends before its
\* closing quote; an Object or Array token starts at its opening and ends at
\* its closing brace or bracket.
C8_TokenBorrow ==
    \A t \in Handed :
       /\ t.type = JSON_STRING =>
             At(t.str - 1) = QT /\ t.len >= 0 /\ At(t.str + t.len) = QT
       /\ IsContainer(t) =>
             At(t.str) \in {LB, LK} /\ At(t.str + t.len - 1) \in {RB, RK}

\* C9: a Number, True, False or Null token holds no whitespace byte.
C9_BareNoSpace ==
    \A t \in Handed :
       t.type \in {JSON_NUMBER, JSON_TRUE, JSON_FALSE, JSON_NULL} =>
          \A p \in t.str..(t.str + t.len - 1) : At(p) \notin {SP, TAB, CR, LF}

UnclosedString(b) ==
    /\ b[1] = QT
    /\ \A k \in 2..Len(b) : b[k] \notin {QT, BSL, NUL}

\* C11: with a capacity the document does not fill, json_load returns
\* JSON_PARSING_ERROR when the first byte has no transition under
\* json_go_struct, and it does not return JSON_OK for a buffer that ends
\* inside an unterminated string.
C11_OpenNotOk ==
    (pc = "load_done" /\ max = Roomy) =>
       /\ (json_go_struct(buf[1]) = JSON_STATE_FAILED /\ buf[1] # NUL)
             => status = JSON_PARSING_ERROR
       /\ UnclosedString(buf) => status # JSON_OK

\* C20: json_num makes at most Len(buf) + 1 calls of json_read (the one
\* before the loop and one for each iteration).
C20_NumBounded == pc \in {"num", "num_done"} => calls + 1 <= Len(buf) + 1

\* the bytes of a token of the document
Bytes(t) == [k \in 1..t.len |-> buf[t.str + k]]

\* a path that is one name
PlainName(p) == \A k \in DOMAIN p : p[k] \notin {DOT, LK, RK}

\* the slot after the token in slot k and all that is nested in it
After(k) == k + 1 + (IF IsContainer(toks[k]) THEN toks[k].sub ELSE 0)

\* the slots of the keys of an object whose members fill the slots k..last
RECURSIVE KeySlots(_, _)
KeySlots(k, last) ==
    IF k + 1 > last \/ (k + 1) \notin DOMAIN toks THEN {}
    ELSE {k} \cup KeySlots(After(k + 1), last)

\* the slot of the n-th of the elements that start in slot k
RECURSIVE Elem(_, _)
Elem(k, n) == IF n = 0 \/ k \notin DOMAIN toks THEN k ELSE Elem(After(k), n - 1)

\* the document is one object: the loaded tokens are its keys and values
RootObject == buf[1] = LB

\* C12: on an object, a name that is byte for byte equal to no key of the
\* object gives NULL.
C12_ExactKey ==
    (pc = "queried" /\ RootObject /\ PlainName(path)
        /\ \A k \in KeySlots(0, read - 1) : Bytes(toks[k]) # path)
    => found = NULL

\* the digit of an index
Digit(n) == 48 + n

\* C13: a path that goes on after a key whose value is a scalar, or after
\* [N] on an array whose N-th element is a scalar, gives NULL.
C13_ScalarEnd ==
    (pc = "queried" /\ RootObject) =>
       \A k \in KeySlots(0, read - 1) :
          LET key == Bytes(toks[k])
              v == toks[k + 1]
          IN /\ (~IsContainer(v) /\ Len(path) > Len(key) + 1
                    /\ SubSeq(path, 1, Len(key) + 1) = key \o <<DOT>>)
                => found = NULL
             /\ \A n \in 0..9 :
                  LET pre == key \o <<LK, Digit(n), RK, DOT>>
                  IN (v.type = JSON_ARRAY /\ n < v.children
                         /\ ~IsContainer(toks[Elem(k + 2, n)])
                         /\ Len(path) > Len(pre) /\ SubSeq(path, 1, Len(pre)) = pre)
                     => found = NULL

RECURSIVE RootElems(_)
RootElems(k) == IF k \notin DOMAIN toks \/ k >= read THEN 0 ELSE 1 + RootElems(After(k))

\* C15: on a document whose root is an array, [i] selects the i-th element
\* of the root and a following [j] the j-th element of that element; for
\* [[1,2],[3,4]] json_num is 7 and [1][0] is the Number 3.
C15_RootIndex ==
    /\ (buf = Doc_nest /\ pc = "num_done") => num = 7
    /\ (buf = Doc_nest /\ pc = "queried" /\ path = Path_10)
          => (found # NULL /\ hit.type = JSON_NUMBER /\ Bytes(hit) = <<Ch.d3>>)
    /\ (buf[1] = LK /\ pc = "queried") =>
          \A i \in 0..9 :
             (path = <<LK, Digit(i), RK>> /\ i < RootElems(0)) => found = Elem(0, i)

\* C16: json_query(e, e->sub, Q) on the Object e that json_query(toks,
\* count, P) returned gives what json_query(toks, count, P.Q) gives, and
\* reads no slot outside e and the e->sub slots after it.
C16_SubQuery ==
    (pc = "subqueried" /\ PlainName(path)
        /\ (PlainName(subpath) \/ subpath \in {Path_b0, Path_b1}))
    => /\ subfound = json_query(Env(0, read, path \o <<DOT>> \o subpath,
                                    JSON_TOKEN_NULL, NUL, 0)).ret
       /\ subseen \subseteq found..(found + hit.sub)

\* C17: json_query_number returns None on a miss and the kind of the token
\* when it is not a Number, and leaves *num as it was in both cases;
\* json_query_string returns None on a miss and the kind of the token when
\* it is not a String, and leaves the buffer and *size as they were.
C17_TypedFrame ==
    [][/\ (pc' = "number_done" /\ found' = NULL)
             => (rc' = JSON_NONE /\ number' = number)
       /\ (pc' = "number_done" /\ found' # NULL /\ hit'.type # JSON_NUMBER)
             => (rc' = hit'.type /\ number' = number)
       /\ (pc' = "string_done" /\ found' = NULL)
             => (rc' = JSON_NONE /\ buffer' = buffer /\ size' = size)
       /\ (pc' = "string_done" /\ found' # NULL /\ hit'.type # JSON_STRING)
             => (rc' = hit'.type /\ buffer' = buffer /\ size' = size)
      ]_vars

\* json_query_number with the path b on {"a":1,"b":"hi"}: the String hi
C17_Witness ==
    /\ pc = "number_done"
    /\ buf = Doc_ab
    /\ path = <<Lb>>
    /\ found = 3
    /\ rc = JSON_STRING
    /\ number = Number(7, 0)

Min(a, b) == IF a < b THEN a ELSE b

\* C18: for a token of n bytes and max >= 1, json_cpy writes the first
\* min(n, max - 1) bytes of the token and a NUL after them, writes nothing
\* at an index >= max, and returns min(n, max - 1).
C18_CpyLength ==
    (pc = "copied" /\ cap >= 1) =>
       LET k == Min(Len(buf), cap - 1)
       IN /\ DOMAIN buffer = 0..k
          /\ \A i \in 0..(k - 1) : buffer[i] = buf[i + 1]
          /\ buffer[k] = NUL
          /\ rc = k

\* the token has a second '.', a '.' after an exponent marker, a second
\* exponent marker, or a byte without a transition in json_go_num
Unsplittable(b) ==
    \/ \E i, j \in DOMAIN b : i < j /\ b[i] = DOT /\ b[j] = DOT
    \/ \E i, j \in DOMAIN b : i < j /\ b[i] \in {Le, UE} /\ b[j] = DOT
    \/ \E i, j \in DOMAIN b : i < j /\ b[i] \in {Le, UE} /\ b[j] \in {Le, UE}
    \/ \E i \in DOMAIN b : json_go_num(b[i]) = JSON_STATE_NUM_FAILED

\* C19 as stated: json_convert returns JSON_NONE and leaves *num as it was
\* for such a token, and JSON_NUMBER for every other token that is not
\* empty.
C19_SplitOnce ==
    pc = "converted" =>
       IF Unsplittable(buf) THEN rc = JSON_NONE /\ number = Number(7, 0)
       ELSE rc = JSON_NUMBER

\* the bytes of b before its first space, tab, CR or LF
RECURSIVE UpToBreak(_)
UpToBreak(b) ==
    IF b = <<>> \/ b[1] \in {SP, TAB, CR, LF} THEN <<>>
    ELSE <<b[1]>> \o UpToBreak(Tail(b))

\* C19 as the code has it: json_convert reads the token up to its first
\* white space byte only.  It returns JSON_NONE and leaves *num as it was
\* when the bytes before that byte have a second '.', a '.' after an
\* exponent marker, a second exponent marker or a byte without a transition,
\* and JSON_NUMBER for every other token that is not empty, whatever follows
\* the white space.
C19_SplitOnceHead ==
    pc = "converted" =>
       IF Unsplittable(UpToBreak(buf)) THEN rc = JSON_NONE /\ number = Number(7, 0)
       ELSE rc = JSON_NUMBER

\* "1 a" is converted to 1
C19_Witness ==
    /\ pc = "converted"
    /\ buf = <<Ch.d1, SP, Ch.a>>
    /\ rc = JSON_NUMBER
    /\ number = Number(1, 0)

\* the thread has read an entry
HasRead(t) == thr[t].saw.tbl # "none"

\* C21: once one call to json_init has run to its end before any other
\* thread has called it, the flag is set and the tables are complete, no
\* later call stores to a table (or to the flag), and every entry a thread
\* reads is the entry of the finished table.
C21_InitOnce ==
    solo => /\ json_is_initialized = 1
            /\ tables = FullTables
            /\ \A t \in Threads : thr[t].pc \notin {"set", "fill"}
            /\ \A t \in Threads :
                 HasRead(t) => thr[t].saw.st = Entry(thr[t].saw.tbl, thr[t].saw.c)

\* two threads race: one returned from json_init because the flag was
\* already 1 and then read FAILED from an entry the finished table accepts
C21_Witness ==
    \E t \in Threads :
      /\ thr[t].early
      /\ HasRead(t)
      /\ thr[t].saw.st = JSON_STATE_FAILED
      /\ Entry(thr[t].saw.tbl, thr[t].saw.c) # JSON_STATE_FAILED
      /\ ~solo
\* C22: after json_load has returned JSON_OK the stored tokens are in
\* strict document order: of two stored tokens that start in the buffer,
\* the one in the lower slot starts at the lower offset.
C22_DocumentOrder ==
    Loaded => \A i, j \in 0..(read - 1) :
                (i < j /\ i \in DOMAIN toks /\ j \in DOMAIN toks
                       /\ toks[i].str # NULL /\ toks[j].str # NULL)
                  => toks[i].str < toks[j].str

\* C23: json_read makes progress: called on an iterator with err clear and
\* len > 0 it returns an iterator that has err set, or has src null and
\* len 0, or has a len strictly below the one it was given.
C23_ReadProgress ==
    (pc = "client" /\ iter.err = 0 /\ iter.len > 0) =>
        \A ub \in UBInts :
           \/ json_read(iter, buf, ub).iter.err # 0
           \/ /\ json_read(iter, buf, ub).iter.src = NULL
              /\ json_read(iter, buf, ub).iter.len = 0
           \/ json_read(iter, buf, ub).iter.len < iter.len

\* C24: json_query stays inside the array it is given: on the count = *read
\* tokens of a load it reads no slot k >= count, and it returns NULL or a
\* pointer to a slot k with 0 <= k < count.
C24_QueryInside ==
    pc = "queried" =>
        /\ seen \subseteq 0..(read - 1)
        /\ found = NULL \/ found \in 0..(read - 1)

\* what the rule for bytes above 127 says of the string that opens at b[q]:
\* "closed" when the closing quote is met with no byte pending, "bad" at
\* the first byte that breaks the rule, "cut" when the buffer or a NUL ends
\* the string; with strict a NUL in the place of a continuation byte is
\* "bad" as any other byte
RECURSIVE Utf8Verdict(_, _, _, _)
Utf8Verdict(b, p, pending, strict) ==
    IF p > Len(b) THEN "cut"
    ELSE IF pending > 0
    THEN IF b[p] \in 128..191 THEN Utf8Verdict(b, p + 1, pending - 1, strict)
         ELSE IF b[p] = NUL /\ ~strict THEN "cut"
         ELSE "bad"
    ELSE IF b[p] = NUL THEN "cut"
    ELSE IF b[p] = QT THEN "closed"
    ELSE IF b[p] \in 192..223 THEN Utf8Verdict(b, p + 1, 1, strict)
    ELSE IF b[p] \in 224..239 THEN Utf8Verdict(b, p + 1, 2, strict)
    ELSE IF b[p] \in 240..247 THEN Utf8Verdict(b, p + 1, 3, strict)
    ELSE IF b[p] \in 128..191 \cup 248..255 THEN "bad"
    ELSE Utf8Verdict(b, p + 1, 0, strict)

\* the offset of the opening quote of the first string of b
FirstQuote(b) == CHOOSE q \in 0..(Len(b) - 1) :
                    b[q + 1] = QT /\ \A k \in 1..q : b[k] # QT

\* the first json_read of b does what the rule says of its first string
Utf8Rule(b, r, strict) ==
    LET q == FirstQuote(b)
        v == Utf8Verdict(b, q + 2, 0, strict)
    IN /\ v = "bad" => /\ r.iter.err = 1
                       /\ r.ret = "failed"
                       /\ r.obj.type # JSON_STRING
       /\ v = "closed" => /\ r.iter.err = 0
                          /\ r.ret = "yield"
                          /\ r.obj.type = JSON_STRING
                          /\ r.obj.str = q + 1
                          /\ b[r.obj.str + r.obj.len + 1] = QT
                          /\ \A k \in 1..r.obj.len : b[r.obj.str + k] # QT

IsNumeric(s) ==
    /\ s # <<>>
    /\ \A k \in DOMAIN s : IsDigit(s[k]) \/ s[k] \in {DOT, Le}
    /\ IsDigit(s[1]) /\ IsDigit(s[Len(s)])
    /\ \A k \in DOMAIN s : s[k] \in {DOT, Le} => IsDigit(s[k + 1])
    /\ \A j, k \in DOMAIN s : (j < k /\ s[j] \in {DOT, Le}) => s[k] # DOT
    /\ \A j, k \in DOMAIN s : (j < k /\ s[j] = Le) => s[k] # Le

\* json_convert of the token that is the whole of s
Converted(s, ub) ==
    json_convert(Number(7, 0), [JSON_TOKEN_NULL EXCEPT !.str = 0, !.len = Len(s)], s, ub)

\* C26: a leading '-' negates the converted value: when json_convert gives v
\* for a token s without a sign, it gives -v for '-' followed by s, also
\* when the integer part of s is 0 as in -0.5.
C26_MinusNegates ==
    (/\ pc = "converted"
     /\ Len(buf) >= 2
     /\ buf[1] = MINUS
     /\ IsNumeric(Tail(buf))
     /\ \A ub \in UBInts : Converted(Tail(buf), ub) = Converted(Tail(buf), 0)
     /\ Converted(Tail(buf), 0).type = JSON_NUMBER)
       => /\ rc = JSON_NUMBER
          /\ number.m * Pow10(Converted(Tail(buf), 0).num.s)
               = (-Converted(Tail(buf), 0).num.m) * Pow10(number.s)
====
